---- MODULE Spec2Model ----
(***************************************************************************)
(* A model of piger/ecowitt-collector: the payload decoder, the angle and  *)
(* compass helpers, the unit normaliser and the HTTP report handler.       *)
(*                                                                         *)
(* Conventions of the model                                                *)
(*  - A Go string is a sequence of one-character strings, so that case     *)
(*    folding and parsing are computed character by character.             *)
(*  - A float64 is the exact number it was written as, a whole number      *)
(*    times a power of ten (70.0 is 7 * 10^1), or an infinity or NaN;      *)
(*    binary rounding of float64 is not modelled.                          *)
(*  - Go's int is 64 bits wide; every integer of the model stays far below *)
(*    that width, so no wrap-around is modelled.                           *)
(***************************************************************************)
EXTENDS Integers, Sequences, FiniteSets, TLC

VARIABLES
    odPc, odIn, odOff, odRet, odBack,   \* a call of offsetDegrees and its re-application
    wnPc, wnIn, wnRet,                  \* a call of windDegreesToName
    pvPc, pvIn, pvOrder, pvMsg, pvErr,  \* a call of Payload.ParseValues
    nwPc, nwIn, nwField, nwRet, nwAlt,  \* a call of NewWeatherData, and one on a changed payload
    cvPc, cvIn, cvRet,                  \* a conversion of miles per hour to meters per second
    serving,      \* whether the HTTP server accepts requests
    units,        \* the conversions registered with the units library
    windOffset,   \* the offset given to makeHandler
    hReq,         \* the request each handler invocation serves
    hPc,          \* where each invocation stands
    hPayload,     \* its decoded payload (var p payload)
    hData,        \* its WeatherData (wd)
    hStatus,      \* the status code written (0: none yet)
    hCalls,       \* what it has called so far
    sink          \* the statements the database accepted

vars == <<odPc, odIn, odOff, odRet, odBack, wnPc, wnIn, wnRet,
          pvPc, pvIn, pvOrder, pvMsg, pvErr,
          nwPc, nwIn, nwField, nwRet, nwAlt, cvPc, cvIn, cvRet,
          serving, units, windOffset, hReq, hPc, hPayload, hData, hStatus, hCalls, sink>>

offsetVars == <<odPc, odIn, odOff, odRet, odBack>>
compassVars == <<wnPc, wnIn, wnRet>>
decodeVars == <<pvPc, pvIn, pvOrder, pvMsg, pvErr>>
normalizeVars == <<nwPc, nwIn, nwField, nwRet, nwAlt>>
convertVars == <<cvPc, cvIn, cvRet>>
serverVars == <<serving, units, windOffset, hReq, hPc, hPayload, hData, hStatus, hCalls, sink>>

-----------------------------------------------------------------------------
(* Bounds *)

\* offsets tried are -MaxOffset .. MaxOffset (more than two full turns)
MaxOffset == 400

\* degrees tried by the compass lookup are -MaxOver .. 360 + MaxOver
MaxOver == 40

\* reports handled concurrently
NumRequests == 2

\* speeds converted are 0 .. MaxMph miles per hour, in whole numbers and in
\* tenths
MaxMph == 30

-----------------------------------------------------------------------------
(* Go integer arithmetic *)

\* Go's % truncates toward zero: the result has the sign of the dividend.
GoRem(a, b) == IF a >= 0 THEN a % b ELSE -((-a) % b)

-----------------------------------------------------------------------------
(* main.go: angle helpers *)

FullTurn == 360

WindDirections ==
    <<"N", "NNE", "NE", "ENE", "E", "ESE", "SE", "SSE",
      "S", "SSW", "SW", "WSW", "W", "WNW", "NW", "NNW">>

offsetDegrees(i, offset) ==
    LET off == IF offset < 0 THEN offset + FullTurn ELSE offset
    IN  GoRem(i + off, FullTurn)

\* the nil error and the error built by fmt.Errorf("invalid wind degrees %d", d)
NilErr == [kind |-> "nil", arg |-> 0]
InvalidDegrees(d) == [kind |-> "invalid wind degrees", arg |-> d]

\* idx := float64(d)/22.5 + 0.5; idx = math.Floor(idx).  d/22.5 + 0.5 is the
\* rational (4d + 45)/90, never an integer for an integer d, and d >= 0 here.
windIndexNoHalf(d) == (4 * d) \div 90
windIndex(d) == (4 * d + 45) \div 90

windDegreesToNameWide(d) ==
    IF d < 0 \/ d >= FullTurn
    THEN [name |-> "", err |-> InvalidDegrees(d)]
    ELSE [name |-> WindDirections[(windIndex(d) % Len(WindDirections)) + 1],
          err |-> NilErr]
windDegreesToName(d) ==
    IF d < 0 \/ d > FullTurn
    THEN [name |-> "", err |-> InvalidDegrees(d)]
    ELSE [name |-> WindDirections[(windIndex(d) % Len(WindDirections)) + 1],
          err |-> NilErr]

-----------------------------------------------------------------------------
(* Go strings, as sequences of one-character strings *)

UpperLetters ==
    <<"A", "B", "C", "D", "E", "F", "G", "H", "I", "J", "K", "L", "M",
      "N", "O", "P", "Q", "R", "S", "T", "U", "V", "W", "X", "Y", "Z">>
LowerLetters ==
    <<"a", "b", "c", "d", "e", "f", "g", "h", "i", "j", "k", "l", "m",
      "n", "o", "p", "q", "r", "s", "t", "u", "v", "w", "x", "y", "z">>
DigitChars == <<"0", "1", "2", "3", "4", "5", "6", "7", "8", "9">>

\* strings.ToLower, on the ASCII letters
ToLowerChar(c) ==
    IF \E i \in DOMAIN UpperLetters : UpperLetters[i] = c
    THEN LowerLetters[CHOOSE i \in DOMAIN UpperLetters : UpperLetters[i] = c]
    ELSE c
ToLower(s) == [i \in 1 .. Len(s) |-> ToLowerChar(s[i])]

IsDigit(c) == \E i \in DOMAIN DigitChars : DigitChars[i] = c
DigitVal(c) == (CHOOSE i \in DOMAIN DigitChars : DigitChars[i] = c) - 1
AllDigits(s) == \A i \in 1 .. Len(s) : IsDigit(s[i])

RECURSIVE DecVal(_)
DecVal(s) ==
    IF s = <<>> THEN 0
    ELSE 10 * DecVal(SubSeq(s, 1, Len(s) - 1)) + DigitVal(s[Len(s)])

RECURSIVE Pow10(_)
Pow10(n) == IF n = 0 THEN 1 ELSE 10 * Pow10(n - 1)

HasSign(s) == s # <<>> /\ s[1] \in {"+", "-"}
Unsigned(s) == IF HasSign(s) THEN Tail(s) ELSE s
SignOf(s) == IF s # <<>> /\ s[1] = "-" THEN -1 ELSE 1

-----------------------------------------------------------------------------
(* strconv and time, on the strings the model sends *)

\* strconv.ParseInt(s, 10, 64): an optional sign and at least one decimal
\* digit (values beyond 64 bits need strings longer than any sent here).
ParseInt(s) ==
    LET body == Unsigned(s)
    IN  IF body # <<>> /\ AllDigits(body)
        THEN [ok |-> TRUE, val |-> SignOf(s) * DecVal(body)]
        ELSE [ok |-> FALSE, val |-> 0]

\* A float64 is held exactly.  A number is m * 10^e with m not divisible by
\* ten and zero as 0 * 10^0, so that equal numbers are equal records; the
\* infinities carry their sign in m.
RECURSIVE Num(_, _)
Num(m, e) ==
    IF m = 0 THEN [kind |-> "num", m |-> 0, e |-> 0]
    ELSE IF m % 10 = 0 THEN Num(m \div 10, e + 1)
    ELSE [kind |-> "num", m |-> m, e |-> e]
Inf(sign) == [kind |-> "inf", m |-> sign, e |-> 0]
NaN == [kind |-> "nan", m |-> 0, e |-> 0]

Min(S) == CHOOSE x \in S : \A y \in S : x <= y
Max(S) == CHOOSE x \in S : \A y \in S : y <= x

RECURSIVE Pow2(_)
Pow2(n) == IF n = 0 THEN 1 ELSE 2 * Pow2(n - 1)
RECURSIVE Pow5(_)
Pow5(n) == IF n = 0 THEN 1 ELSE 5 * Pow5(n - 1)

HexLetters == <<"a", "b", "c", "d", "e", "f">>
IsHexLetter(c) == \E i \in DOMAIN HexLetters : HexLetters[i] = c
HexDigitVal(c) ==
    IF IsDigit(c) THEN DigitVal(c)
    ELSE 9 + (CHOOSE i \in DOMAIN HexLetters : HexLetters[i] = c)
RECURSIVE HexVal(_)
HexVal(s) ==
    IF s = <<>> THEN 0
    ELSE 16 * HexVal(SubSeq(s, 1, Len(s) - 1)) + HexDigitVal(s[Len(s)])

\* readFloat's exponent loop: e = e*10 + digit as long as e < 10000
RECURSIVE ExpVal(_, _)
ExpVal(ds, e) ==
    IF ds = <<>> THEN e
    ELSE ExpVal(Tail(ds), IF e < 10000 THEN e * 10 + DigitVal(ds[1]) ELSE e)

\* strconv's underscoreOK on a lower-cased string without its sign: an
\* underscore must follow a digit or the base prefix, and a digit must follow
\* it
underscoreOK(t) ==
    LET pre == Len(t) >= 2 /\ t[1] = "0" /\ t[2] \in {"b", "o", "x"}
        hexd == pre /\ t[2] = "x"
        from == IF pre THEN 3 ELSE 1
        isDig(i) == IsDigit(t[i]) \/ (hexd /\ IsHexLetter(t[i]))
        digitBefore(i) == IF i = from THEN pre ELSE isDig(i - 1)
    IN  /\ \A i \in from .. Len(t) :
               /\ t[i] = "_" => digitBefore(i)
               /\ (t[i] # "_" /\ ~isDig(i) /\ i > from) => t[i - 1] # "_"
        /\ Len(t) >= from => t[Len(t)] # "_"

\* The largest float64 is 1.7976931348623157e308: a decimal overflows when
\* it is at least 1.797693134862315808e308, which for the nine leading digits
\* kept here is 1.79769314e308.  The smallest is 4.9e-324: a decimal of at
\* most half of it, 2.47032822e-324 in nine digits, is read as zero.
LeadDigits == 9
MaxTop10 == 308
MaxLead10 == 179769314
MinTop10 == -324
MinLead10 == 247032822
\* a hexadecimal float overflows from 2^1024 on and is zero up to 2^-1075
MaxTop2 == 1024
MinTop2 == -1075

SyntaxError == [ok |-> FALSE, val |-> Num(0, 0)]
RangeError(sign) == [ok |-> FALSE, val |-> Inf(sign)]

\* the decimal float with the given digits (one of them not zero) times
\* 10^e: sig * 10^e10, its leading digit worth 10^top10
DecimalFloat(sign, digits, e) ==
    LET nz == {i \in DOMAIN digits : digits[i] # "0"}
        sig == SubSeq(digits, Min(nz), Max(nz))
        e10 == e + Len(digits) - Max(nz)
        top10 == Len(sig) - 1 + e10
    IN  IF top10 > MaxTop10 \/
           (top10 = MaxTop10 /\ DecVal(sig) * Pow10(LeadDigits - Len(sig)) >= MaxLead10)
        THEN RangeError(sign)
        ELSE IF top10 < MinTop10 \/
                (top10 = MinTop10 /\ DecVal(sig) * Pow10(LeadDigits - Len(sig)) <= MinLead10)
        THEN [ok |-> TRUE, val |-> Num(0, 0)]
        ELSE [ok |-> TRUE, val |-> Num(sign * DecVal(sig), e10)]

\* the hexadecimal float m16 * 2^e2 (m16 not zero and below 2^30), its
\* leading bit worth 2^top2
HexFloat(sign, m16, e2) ==
    LET bit == CHOOSE n \in 0 .. 29 : Pow2(n) <= m16 /\ m16 < 2 * Pow2(n)
        top2 == e2 + bit
    IN  IF top2 >= MaxTop2 THEN RangeError(sign)
        ELSE IF top2 < MinTop2 \/ (top2 = MinTop2 /\ m16 = Pow2(bit))
        THEN [ok |-> TRUE, val |-> Num(0, 0)]
        ELSE [ok |-> TRUE,
              val |-> IF e2 >= 0 THEN Num(sign * m16 * Pow2(e2), 0)
                      ELSE Num(sign * m16 * Pow5(-e2), e2)]

\* readFloat's mantissa loop: the first position of body, from first on, that
\* does not belong to the mantissa (a second point ends it)
MantissaEnd(body, first, hex) ==
    LET stops == {i \in first .. Len(body) :
                     \/ ~(\/ IsDigit(body[i]) \/ body[i] \in {"_", "."}
                          \/ hex /\ IsHexLetter(body[i]))
                     \/ body[i] = "." /\ \E j \in first .. i - 1 : body[j] = "."}
    IN  IF stops = {} THEN Len(body) + 1 ELSE Min(stops)

\* the digits of a mantissa, and how many of them follow the point
MantissaDigits(mant) == SelectSeq(mant, LAMBDA c : c \notin {"_", "."})
FractionDigits(mant) ==
    LET dots == {i \in DOMAIN mant : mant[i] = "."}
    IN  IF dots = {} THEN 0
        ELSE Len(MantissaDigits(SubSeq(mant, Min(dots) + 1, Len(mant))))

\* readFloat's optional exponent, in what follows the mantissa: "e" (or the
\* mandatory "p" of a hexadecimal mantissa), an optional sign, a digit, then
\* digits and underscores
ReadExponent(rest, hex) ==
    IF rest = <<>> THEN [ok |-> ~hex, exp |-> 0]
    ELSE IF rest[1] # (IF hex THEN "p" ELSE "e") THEN [ok |-> FALSE, exp |-> 0]
    ELSE LET expBody == Unsigned(Tail(rest))
         IN  IF /\ expBody # <<>> /\ IsDigit(expBody[1])
                /\ \A i \in DOMAIN expBody : IsDigit(expBody[i]) \/ expBody[i] = "_"
             THEN [ok |-> TRUE,
                   exp |-> SignOf(Tail(rest)) * ExpVal(SelectSeq(expBody, IsDigit), 0)]
             ELSE [ok |-> FALSE, exp |-> 0]

\* readFloat on a lower-cased string without its sign, once the mantissa mant
\* and what follows it are told apart
ReadNumber(sign, body, hex, mant, rest) ==
    LET digits == MantissaDigits(mant)
        ex == ReadExponent(rest, hex)
    IN  IF ~(/\ digits # <<>>
             /\ ex.ok
             /\ (\E i \in DOMAIN body : body[i] = "_") => underscoreOK(body))
        THEN SyntaxError
        ELSE IF \A i \in DOMAIN digits : digits[i] = "0"
        THEN [ok |-> TRUE, val |-> Num(0, 0)]
        ELSE IF hex
        THEN HexFloat(sign, HexVal(digits), ex.exp - 4 * FractionDigits(mant))
        ELSE DecimalFloat(sign, digits, ex.exp - FractionDigits(mant))

\* readFloat: "0x" before at least one more character starts a hexadecimal
\* mantissa
readFloat(sign, body) ==
    LET hex == Len(body) > 2 /\ body[1] = "0" /\ body[2] = "x"
        first == IF hex THEN 3 ELSE 1
        stop == MantissaEnd(body, first, hex)
    IN  ReadNumber(sign, body, hex,
                   SubSeq(body, first, stop - 1), SubSeq(body, stop, Len(body)))

\* special: "inf" and "infinity", signed or not, and "nan" without a sign
special(l) ==
    IF Unsigned(l) \in {<<"i", "n", "f">>, <<"i", "n", "f", "i", "n", "i", "t", "y">>}
    THEN [ok |-> TRUE, val |-> Inf(SignOf(l))]
    ELSE IF l = <<"n", "a", "n">> THEN [ok |-> TRUE, val |-> NaN]
    ELSE [ok |-> FALSE, val |-> Num(0, 0)]

\* strconv.ParseFloat(s, 64), in any case of the letters: a special value,
\* or an optional sign and a number: "0x" before hexadecimal digits; digits
\* with at most one point and with underscores; an exponent; nothing may
\* follow.  A value out of range is an error.  The value is the exact number
\* written: rounding to 53 bits is not modelled, and the signed zero is zero.
\* The mantissas evaluated here have at most LeadDigits significant digits.
ParseFloat(s) ==
    IF special(ToLower(s)).ok THEN special(ToLower(s))
    ELSE readFloat(SignOf(ToLower(s)), Unsigned(ToLower(s)))

\* the zero time.Time: January 1, year 1, 00:00:00 UTC
ZeroTime == [Y |-> 1, M |-> 1, D |-> 1, h |-> 0, m |-> 0, s |-> 0, ns |-> 0]

IsLeap(y) == y % 4 = 0 /\ (y % 100 # 0 \/ y % 400 = 0)
DaysIn(mo, y) ==
    IF mo = 2 THEN (IF IsLeap(y) THEN 29 ELSE 28)
    ELSE IF mo \in {4, 6, 9, 11} THEN 30 ELSE 31

\* the digits parseNanoseconds keeps
NanoDigits == 9

IsDigitAt(s, i) == i <= Len(s) /\ IsDigit(s[i])
IsCharAt(s, i, c) == i <= Len(s) /\ s[i] = c

BadTime == [ok |-> FALSE, val |-> ZeroTime]

\* time.Date accepts the fields time.Parse has range-checked; the day is
\* checked against the month's length
CheckedTime(t) ==
    IF /\ t.M \in 1 .. 12
       /\ t.D >= 1 /\ t.D <= DaysIn(t.M, t.Y)
       /\ t.h < 24 /\ t.m < 60 /\ t.s < 60
    THEN [ok |-> TRUE, val |-> t]
    ELSE BadTime

\* parseNanoseconds: at most NanoDigits digits of the fraction count
parseNanoseconds(frac) ==
    LET kept == SubSeq(frac, 1, IF Len(frac) > NanoDigits THEN NanoDigits ELSE Len(frac))
    IN  DecVal(kept) * Pow10(NanoDigits - Len(kept))

\* the position of the last character of the seconds and of the fraction
\* that may follow them ("." or "," and digits), the seconds ending before e
FractionEnd(s, e) ==
    IF (IsCharAt(s, e, ".") \/ IsCharAt(s, e, ",")) /\ IsDigitAt(s, e + 1)
    THEN CHOOSE n \in e + 1 .. Len(s) :
             /\ \A i \in e + 1 .. n : IsDigit(s[i])
             /\ ~IsDigitAt(s, n + 1)
    ELSE e - 1

\* the clock of the layout, "15:04:05": the hour starts at h0 and has one or
\* two digits (getnum(value, false)), p is the position after it; minute and
\* second have two digits; nothing may follow the seconds and their fraction
ParseClock(s, h0, p) ==
    IF ~(/\ IsCharAt(s, p, ":") /\ IsDigitAt(s, p + 1) /\ IsDigitAt(s, p + 2)
         /\ IsCharAt(s, p + 3, ":") /\ IsDigitAt(s, p + 4) /\ IsDigitAt(s, p + 5)
         /\ Len(s) = FractionEnd(s, p + 6))
    THEN BadTime
    ELSE CheckedTime([Y  |-> DecVal(SubSeq(s, 1, 4)),
                      M  |-> DecVal(SubSeq(s, 6, 7)),
                      D  |-> DecVal(SubSeq(s, 9, 10)),
                      h  |-> DecVal(SubSeq(s, h0, p - 1)),
                      m  |-> DecVal(SubSeq(s, p + 1, p + 2)),
                      s  |-> DecVal(SubSeq(s, p + 4, p + 5)),
                      ns |-> parseNanoseconds(SubSeq(s, p + 7, Len(s)))])

\* cutspace: the first position from 11 on that holds no space
cutspace(s) ==
    CHOOSE n \in 11 .. Len(s) + 1 :
        /\ \A i \in 11 .. n - 1 : s[i] = " "
        /\ ~IsCharAt(s, n, " ")

ParseHour(s, h0) ==
    IF ~IsDigitAt(s, h0) THEN BadTime
    ELSE ParseClock(s, h0, h0 + (IF IsDigitAt(s, h0 + 1) THEN 2 ELSE 1))

\* time.Parse(time.DateTime, s), layout "2006-01-02 15:04:05": a four-digit
\* year, two-digit month and day, one or more spaces (skip cuts the whole run
\* the layout's space stands for), an hour of one or two digits, two-digit
\* minute and second, then optionally a point or comma and a fraction of a
\* second; nothing may follow.  The instant is in UTC.
ParseDateTime(s) ==
    IF ~(/\ IsDigitAt(s, 1) /\ IsDigitAt(s, 2) /\ IsDigitAt(s, 3) /\ IsDigitAt(s, 4)
         /\ IsCharAt(s, 5, "-") /\ IsDigitAt(s, 6) /\ IsDigitAt(s, 7)
         /\ IsCharAt(s, 8, "-") /\ IsDigitAt(s, 9) /\ IsDigitAt(s, 10)
         /\ IsCharAt(s, 11, " "))
    THEN BadTime
    ELSE ParseHour(s, cutspace(s))

-----------------------------------------------------------------------------
(* The Payload struct and its reflective decoder *)

\* a field: its name, the name's characters, its kind, and the name as the
\* decoder's match function folds it
F(n, cs, k) == [name |-> n, chars |-> cs, kind |-> k, lower |-> ToLower(cs)]

\* type Payload struct, in declaration order
PayloadFields ==
    <<
      F("Passkey", <<"P", "a", "s", "s", "k", "e", "y">>, "string"),
      F("BaromAbsIn", <<"B", "a", "r", "o", "m", "A", "b", "s", "I", "n">>, "float64"),
      F("BaromRelIn", <<"B", "a", "r", "o", "m", "R", "e", "l", "I", "n">>, "float64"),
      F("DailyRainIn", <<"D", "a", "i", "l", "y", "R", "a", "i", "n", "I", "n">>, "float64"),
      F("DateUTC", <<"D", "a", "t", "e", "U", "T", "C">>, "time"),
      F("EventRainIn", <<"E", "v", "e", "n", "t", "R", "a", "i", "n", "I", "n">>, "float64"),
      F("Freq", <<"F", "r", "e", "q">>, "string"),
      F("Heap", <<"H", "e", "a", "p">>, "int"),
      F("HourlyRainIn", <<"H", "o", "u", "r", "l", "y", "R", "a", "i", "n", "I", "n">>, "float64"),
      F("Humidity", <<"H", "u", "m", "i", "d", "i", "t", "y">>, "int"),
      F("HumidityIn", <<"H", "u", "m", "i", "d", "i", "t", "y", "I", "n">>, "int"),
      F("Interval", <<"I", "n", "t", "e", "r", "v", "a", "l">>, "int"),
      F("MaxDailyGust", <<"M", "a", "x", "D", "a", "i", "l", "y", "G", "u", "s", "t">>, "float64"),
      F("Model", <<"M", "o", "d", "e", "l">>, "string"),
      F("MonthlyRainIn", <<"M", "o", "n", "t", "h", "l", "y", "R", "a", "i", "n", "I", "n">>, "float64"),
      F("RainRateIn", <<"R", "a", "i", "n", "R", "a", "t", "e", "I", "n">>, "float64"),
      F("Runtime", <<"R", "u", "n", "t", "i", "m", "e">>, "int"),
      F("SolarRadiation", <<"S", "o", "l", "a", "r", "R", "a", "d", "i", "a", "t", "i", "o", "n">>, "float64"),
      F("StationType", <<"S", "t", "a", "t", "i", "o", "n", "T", "y", "p", "e">>, "string"),
      F("Tempf", <<"T", "e", "m", "p", "f">>, "float64"),
      F("TempInF", <<"T", "e", "m", "p", "I", "n", "F">>, "float64"),
      F("TotalRainIn", <<"T", "o", "t", "a", "l", "R", "a", "i", "n", "I", "n">>, "float64"),
      F("UV", <<"U", "V">>, "float64"),
      F("WeeklyRainIn", <<"W", "e", "e", "k", "l", "y", "R", "a", "i", "n", "I", "n">>, "float64"),
      F("Wh65Batt", <<"W", "h", "6", "5", "B", "a", "t", "t">>, "float64"),
      F("WindDir", <<"W", "i", "n", "d", "D", "i", "r">>, "int"),
      F("WindGustMph", <<"W", "i", "n", "d", "G", "u", "s", "t", "M", "p", "h">>, "float64"),
      F("WindSpeedMph", <<"W", "i", "n", "d", "S", "p", "e", "e", "d", "M", "p", "h">>, "float64"),
      F("YearlyRainIn", <<"Y", "e", "a", "r", "l", "y", "R", "a", "i", "n", "I", "n">>, "float64")
    >>

ZeroOf(kind) ==
    CASE kind = "string"  -> <<>>
      [] kind = "float64" -> Num(0, 0)
      [] kind = "int"     -> 0
      [] kind = "time"    -> ZeroTime

\* var payload Payload
ZeroStruct(fields) ==
    [n \in {fields[i].name : i \in DOMAIN fields} |->
        ZeroOf(fields[CHOOSE i \in DOMAIN fields : fields[i].name = n].kind)]

\* reflect.Value.FieldByNameFunc with the decoder's match function
\* (strings.ToLower(s) == strings.ToLower(key)): the index of the field when
\* exactly one field matches, 0 (the invalid Value) otherwise.
FieldByNameFuncExact(fields, key) ==
    LET hits == {i \in DOMAIN fields : fields[i].chars = key}
    IN  IF Cardinality(hits) = 1 THEN CHOOSE i \in hits : TRUE ELSE 0
FieldByNameFunc(fields, key) ==
    LET lkey == ToLower(key)
        hits == {i \in DOMAIN fields : fields[i].lower = lkey}
    IN  IF Cardinality(hits) = 1 THEN CHOOSE i \in hits : TRUE ELSE 0

NoError == [kind |-> "nil", key |-> <<>>]
ErrNoValues(key) == [kind |-> "have no values", key |-> key]
ErrNoSuchField(key) == [kind |-> "no such field", key |-> key]
ErrParsing(key) == [kind |-> "error parsing", key |-> key]

\* the switch on structFieldValue.Kind(): the parsed value, or failure
Coerce(kind, rawValue) ==
    CASE kind = "float64" -> ParseFloat(rawValue)
      [] kind = "int"     -> ParseInt(rawValue)
      [] kind = "string"  -> [ok |-> TRUE, val |-> rawValue]
      [] kind = "time"    -> ParseDateTime(rawValue)

\* which of a key's values the decoder reads
RawValueLast(values) == values[Len(values)]
RawValue(values) == values[1]

\* One iteration of "for key, values := range v": the struct after it and
\* the error it returns, NoError when the loop goes on.
ParseKeyFieldName(fields, msg, key, values) ==
    IF Len(values) < 1 THEN [msg |-> msg, err |-> ErrNoValues(key)]
    ELSE LET f == FieldByNameFunc(fields, key)
         IN  IF f = 0 THEN [msg |-> msg, err |-> ErrNoSuchField(key)]
             ELSE LET r == Coerce(fields[f].kind, RawValue(values))
                  IN  IF ~r.ok
                      THEN [msg |-> msg, err |-> ErrParsing(fields[f].chars)]
                      ELSE [msg |-> [msg EXCEPT ![fields[f].name] = r.val],
                            err |-> NoError]
ParseKey(fields, msg, key, values) ==
    IF Len(values) < 1 THEN [msg |-> msg, err |-> ErrNoValues(key)]
    ELSE LET f == FieldByNameFunc(fields, key)
         IN  IF f = 0 THEN [msg |-> msg, err |-> ErrNoSuchField(key)]
             ELSE LET r == Coerce(fields[f].kind, RawValue(values))
                  IN  IF ~r.ok THEN [msg |-> msg, err |-> ErrParsing(key)]
                      ELSE [msg |-> [msg EXCEPT ![fields[f].name] = r.val],
                            err |-> NoError]

\* Payload.ParseValues(v), the map v visited in the order `order` (Go visits
\* a map in an unspecified order): the struct as left and the error returned.
RECURSIVE ParseLoop(_, _, _, _)
ParseLoop(fields, msg, v, order) ==
    IF order = <<>> THEN [msg |-> msg, err |-> NoError]
    ELSE LET step == ParseKey(fields, msg, Head(order), v[Head(order)])
         IN  IF step.err # NoError THEN step
             ELSE ParseLoop(fields, step.msg, v, Tail(order))

ParseValues(msg, v, order) == ParseLoop(PayloadFields, msg, v, order)

\* the orders in which a map with key set S can be visited
RECURSIVE Orders(_)
Orders(S) ==
    IF S = {} THEN {<<>>}
    ELSE UNION {{<<k>> \o o : o \in Orders(S \ {k})} : k \in S}

-----------------------------------------------------------------------------
(* The url.Values the decoder is tried on *)

\* a url.Values holds at most MaxKeys keys
MaxKeys == 3

K_TempF   == <<"T", "e", "m", "p", "F">>
K_tempf   == <<"t", "e", "m", "p", "f">>
K_TEMPF   == <<"T", "E", "M", "P", "F">>
K_PASSKEY == <<"P", "A", "S", "S", "K", "E", "Y">>
K_winddir == <<"w", "i", "n", "d", "d", "i", "r">>
K_dateutc == <<"d", "a", "t", "e", "u", "t", "c">>
K_foo     == <<"f", "o", "o">>

SampleKeys == {K_TempF, K_tempf, K_TEMPF, K_PASSKEY, K_winddir, K_dateutc, K_foo}

V_48    == <<"4", "8">>
V_7p5   == <<"7", ".", "5">>
V_x     == <<"x">>
V_212e  == <<"2", ".", "1", "2", "E", "2">>
V_stamp == <<"2", "0", "2", "4", "-", "0", "6", "-", "1", "6", " ", "1", "6", ":", "3", "2", ":", "0", "8">>

\* no value at all; a decimal; an integer followed by junk; a timestamp; a
\* decimal with an exponent
SampleValueLists == {<<>>, <<V_7p5>>, <<V_48, V_x>>, <<V_stamp>>, <<V_212e>>}

SampleInputs ==
    UNION {[K -> SampleValueLists] :
               K \in {S \in SUBSET SampleKeys : Cardinality(S) <= MaxKeys}}

-----------------------------------------------------------------------------
(* types.go: the payload struct decoded by the report handler *)

\* type payload struct, in declaration order
payloadFields ==
    <<
      F("Passkey", <<"P", "a", "s", "s", "k", "e", "y">>, "string"),
      F("BaromAbsIn", <<"B", "a", "r", "o", "m", "A", "b", "s", "I", "n">>, "float64"),
      F("BaromRelIn", <<"B", "a", "r", "o", "m", "R", "e", "l", "I", "n">>, "float64"),
      F("DailyRainIn", <<"D", "a", "i", "l", "y", "R", "a", "i", "n", "I", "n">>, "float64"),
      F("DateUTC", <<"D", "a", "t", "e", "U", "T", "C">>, "time"),
      F("EventRainIn", <<"E", "v", "e", "n", "t", "R", "a", "i", "n", "I", "n">>, "float64"),
      F("Freq", <<"F", "r", "e", "q">>, "string"),
      F("Heap", <<"H", "e", "a", "p">>, "int"),
      F("HourlyRainIn", <<"H", "o", "u", "r", "l", "y", "R", "a", "i", "n", "I", "n">>, "float64"),
      F("Humidity", <<"H", "u", "m", "i", "d", "i", "t", "y">>, "int"),
      F("HumidityIn", <<"H", "u", "m", "i", "d", "i", "t", "y", "I", "n">>, "int"),
      F("Interval", <<"I", "n", "t", "e", "r", "v", "a", "l">>, "int"),
      F("MaxDailyGust", <<"M", "a", "x", "D", "a", "i", "l", "y", "G", "u", "s", "t">>, "float64"),
      F("Model", <<"M", "o", "d", "e", "l">>, "string"),
      F("MonthlyRainIn", <<"M", "o", "n", "t", "h", "l", "y", "R", "a", "i", "n", "I", "n">>, "float64"),
      F("RainRateIn", <<"R", "a", "i", "n", "R", "a", "t", "e", "I", "n">>, "float64"),
      F("Runtime", <<"R", "u", "n", "t", "i", "m", "e">>, "int"),
      F("SolarRadiation", <<"S", "o", "l", "a", "r", "R", "a", "d", "i", "a", "t", "i", "o", "n">>, "float64"),
      F("StationType", <<"S", "t", "a", "t", "i", "o", "n", "T", "y", "p", "e">>, "string"),
      F("Tempf", <<"T", "e", "m", "p", "f">>, "float64"),
      F("TempInF", <<"T", "e", "m", "p", "I", "n", "F">>, "float64"),
      F("TotalRainIn", <<"T", "o", "t", "a", "l", "R", "a", "i", "n", "I", "n">>, "float64"),
      F("UV", <<"U", "V">>, "float64"),
      F("VPD", <<"V", "P", "D">>, "float64"),
      F("WeeklyRainIn", <<"W", "e", "e", "k", "l", "y", "R", "a", "i", "n", "I", "n">>, "float64"),
      F("Wh65Batt", <<"W", "h", "6", "5", "B", "a", "t", "t">>, "float64"),
      F("WindDir", <<"W", "i", "n", "d", "D", "i", "r">>, "int"),
      F("WindGustMph", <<"W", "i", "n", "d", "G", "u", "s", "t", "M", "p", "h">>, "float64"),
      F("WindSpeedMph", <<"W", "i", "n", "d", "S", "p", "e", "e", "d", "M", "p", "h">>, "float64"),
      F("YearlyRainIn", <<"Y", "e", "a", "r", "l", "y", "R", "a", "i", "n", "I", "n">>, "float64")
    >>

\* the errors of formDecoder.Decode, one per offending key
ErrUnknownKey(key) == [kind |-> "unknown key", key |-> key]
ErrConversion(key) == [kind |-> "conversion", key |-> key]

\* Decoder.decode for one key of the form: gorilla/schema finds the field
\* whose name equals the key ignoring case, reads the last value sent for the
\* key, hands it to the field's UnmarshalText (type Time) or to the builtin
\* converter of its kind, and leaves the field alone on an empty value.
\* The result is the field written ("" for none), the value, and the error.
DecodeKey(fields, key, values) ==
    LET f == FieldByNameFunc(fields, key)
        val == IF Len(values) > 0 THEN values[Len(values)] ELSE <<>>
        None(err) == [field |-> "", val |-> 0, err |-> err]
    IN  IF f = 0 THEN None(ErrUnknownKey(key))
        ELSE IF fields[f].kind # "time" /\ val = <<>> THEN None(NoError)
        ELSE LET r == Coerce(fields[f].kind, val)
             IN  IF ~r.ok THEN None(ErrConversion(key))
                 ELSE [field |-> fields[f].name, val |-> r.val, err |-> NoError]

\* formDecoder.Decode(&p, r.Form), the form visited in the order `order`:
\* "for path, values := range src" decodes every key, collects the errors and
\* fails when there is at least one.  A key writes its own field only, so
\* after the loop each field holds what the last key that wrote it left.
Decode(p, v, order) ==
    LET eff == {[i |-> i, e |-> DecodeKey(payloadFields, order[i], v[order[i]])] :
                   i \in DOMAIN order}
    IN  [p |-> [n \in DOMAIN p |->
                   LET w == {x \in eff : x.e.field = n}
                   IN  IF w = {} THEN p[n]
                       ELSE (CHOOSE x \in w : \A y \in w : y.i <= x.i).e.val],
         errs |-> {x.e.err : x \in eff} \ {NoError}]

-----------------------------------------------------------------------------
(* The reports the handler is tried on *)

K_WINDDIR == <<"W", "I", "N", "D", "D", "I", "R">>
V_0   == <<"0">>
V_32  == <<"3", "2">>
V_350 == <<"3", "5", "0">>
V_360 == <<"3", "6", "0">>

\* url.ParseQuery: the form of a body given as its key=value pairs in wire
\* order; each key maps to its values in the order sent
ParseQuery(q) ==
    [k \in {q[i][1] : i \in DOMAIN q} |->
        LET mine == SelectSeq(q, LAMBDA pr : pr[1] = k)
        IN  [i \in DOMAIN mine |-> mine[i][2]]]

\* the keys of a body in wire order (the sample bodies repeat no key)
KeysOf(q) == [i \in DOMAIN q |-> q[i][1]]

\* the report of TestParsePayload
QuerySample ==
    <<
      <<<<"P", "A", "S", "S", "K", "E", "Y">>,
        <<"L", "A", "5", "Z", "A", "Q", "U", "A", "H", "N", "G", "E", "D", "O", "O", "W", "0", "D", "A", "E", "R", "O", "O", "V", "8", "V", "E", "Z", "I", "E", "T", "I">>>>,
      <<<<"s", "t", "a", "t", "i", "o", "n", "t", "y", "p", "e">>,
        <<"E", "a", "s", "y", "W", "e", "a", "t", "h", "e", "r", "P", "r", "o", "_", "V", "5", ".", "1", ".", "3">>>>,
      <<<<"r", "u", "n", "t", "i", "m", "e">>,
        <<"1", "2", "4", "0">>>>,
      <<<<"d", "a", "t", "e", "u", "t", "c">>,
        <<"2", "0", "2", "4", "-", "0", "6", "-", "1", "6", " ", "1", "6", ":", "3", "2", ":", "0", "8">>>>,
      <<<<"t", "e", "m", "p", "i", "n", "f">>,
        <<"7", "0", ".", "0">>>>,
      <<<<"h", "u", "m", "i", "d", "i", "t", "y", "i", "n">>,
        <<"4", "8">>>>,
      <<<<"b", "a", "r", "o", "m", "r", "e", "l", "i", "n">>,
        <<"2", "9", ".", "9", "2", "0">>>>,
      <<<<"b", "a", "r", "o", "m", "a", "b", "s", "i", "n">>,
        <<"2", "9", ".", "5", "6", "5">>>>,
      <<<<"t", "e", "m", "p", "f">>,
        <<"6", "7", ".", "8">>>>,
      <<<<"h", "u", "m", "i", "d", "i", "t", "y">>,
        <<"4", "7">>>>,
      <<<<"w", "i", "n", "d", "d", "i", "r">>,
        <<"1", "9", "6">>>>,
      <<<<"w", "i", "n", "d", "s", "p", "e", "e", "d", "m", "p", "h">>,
        <<"0", ".", "2", "2">>>>,
      <<<<"w", "i", "n", "d", "g", "u", "s", "t", "m", "p", "h">>,
        <<"1", ".", "1", "2">>>>,
      <<<<"m", "a", "x", "d", "a", "i", "l", "y", "g", "u", "s", "t">>,
        <<"4", ".", "4", "7">>>>,
      <<<<"s", "o", "l", "a", "r", "r", "a", "d", "i", "a", "t", "i", "o", "n">>,
        <<"1", "4", "2", ".", "5", "5">>>>,
      <<<<"u", "v">>,
        <<"1">>>>,
      <<<<"r", "a", "i", "n", "r", "a", "t", "e", "i", "n">>,
        <<"0", ".", "0", "0", "0">>>>,
      <<<<"e", "v", "e", "n", "t", "r", "a", "i", "n", "i", "n">>,
        <<"0", ".", "0", "0", "0">>>>,
      <<<<"h", "o", "u", "r", "l", "y", "r", "a", "i", "n", "i", "n">>,
        <<"0", ".", "0", "0", "0">>>>,
      <<<<"d", "a", "i", "l", "y", "r", "a", "i", "n", "i", "n">>,
        <<"0", ".", "0", "0", "0">>>>,
      <<<<"w", "e", "e", "k", "l", "y", "r", "a", "i", "n", "i", "n">>,
        <<"0", ".", "0", "0", "0">>>>,
      <<<<"m", "o", "n", "t", "h", "l", "y", "r", "a", "i", "n", "i", "n">>,
        <<"0", ".", "0", "0", "0">>>>,
      <<<<"y", "e", "a", "r", "l", "y", "r", "a", "i", "n", "i", "n">>,
        <<"0", ".", "0", "0", "0">>>>,
      <<<<"t", "o", "t", "a", "l", "r", "a", "i", "n", "i", "n">>,
        <<"0", ".", "0", "0", "0">>>>,
      <<<<"v", "p", "d">>,
        <<"0", ".", "1", "5", "3">>>>,
      <<<<"w", "h", "6", "5", "b", "a", "t", "t">>,
        <<"0">>>>,
      <<<<"f", "r", "e", "q">>,
        <<"8", "6", "8", "M">>>>,
      <<<<"m", "o", "d", "e", "l">>,
        <<"W", "S", "2", "9", "0", "0", "_", "V", "2", ".", "0", "2", ".", "0", "3">>>>,
      <<<<"i", "n", "t", "e", "r", "v", "a", "l">>,
        <<"6", "0">>>>
    >>
FormSample == ParseQuery(QuerySample)

\* a station pointing north, at the freezing point
QueryNorth == << <<K_winddir, V_0>>, <<K_tempf, V_32>>, <<K_dateutc, V_stamp>> >>
FormNorth == ParseQuery(QueryNorth)

\* keys in upper case, and values in spellings that strconv.ParseFloat and
\* time.Parse accept beside the station's own: an exponent, two spaces
\* before the hour
QueryUpper ==
    << <<K_WINDDIR, V_350>>,
       <<K_TEMPF, V_212e>>,
       << <<"D", "A", "T", "E", "U", "T", "C">>,
          <<"2", "0", "2", "4", "-", "0", "6", "-", "1", "6", " ", " ",
            "1", "6", ":", "3", "2", ":", "0", "8">> >> >>
FormUpper == ParseQuery(QueryUpper)

\* a vane reporting the full turn, and a pressure with four fractional digits
QueryFullTurn ==
    << <<K_winddir, V_360>>,
       << <<"B", "A", "R", "O", "M", "R", "E", "L", "I", "N">>,
          <<"2", "9", ".", "9", "2", "0", "1">> >> >>
FormFullTurn == ParseQuery(QueryFullTurn)

\* a key the schema does not know
QueryUnknown == << <<K_winddir, V_48>>, <<K_foo, V_48>> >>

\* a value that is no number
QueryBadNumber == << <<K_winddir, V_x>>, <<K_tempf, V_7p5>> >>
FormBadNumber == ParseQuery(QueryBadNumber)

\* the form of a body that could not be parsed
EmptyForm == <<>>

\* a request: whether its body parses as a form, the parsed form with its
\* keys in wire order, and what the handler is expected to make of it
Request(q, expect) ==
    [bodyOK |-> TRUE, form |-> ParseQuery(q), keys |-> KeysOf(q), expect |-> expect]
BadRequest ==
    [bodyOK |-> FALSE, form |-> EmptyForm, keys |-> <<>>, expect |-> "reject"]

SampleRequests ==
    { Request(QuerySample, "accept"),
      Request(QueryNorth, "accept"),
      Request(QueryUpper, "accept"),
      Request(QueryFullTurn, "accept"),
      Request(QueryUnknown, "reject"),
      Request(QueryBadNumber, "reject"),
      BadRequest }

-----------------------------------------------------------------------------
(* Units and conversions (github.com/bcicen/go-units, as the program uses it) *)

\* A conversion ratio is an exact decimal: its digits in groups of four (most
\* significant first) and the number of digits after the point.  A converted
\* number is the exact product, held group by group: m * 10^e times
\* <<a, b, c>> with d decimals is <<m*a, m*b, m*c>> * 10^(e - d).
Ratio(groups, decimals) ==
    [kind |-> "ratio", minus |-> 0, groups |-> groups, decimals |-> decimals]

\* (F - 32) * 5/9, held as the numerator of a fraction over 9
FahrenheitToCelsius == [kind |-> "affine", minus |-> 32, groups |-> <<5>>, decimals |-> 0]

\* the conversions the units library registers by itself:
\* inHg -> hPa is 33.8638866667, inch -> mm is 25.4
LibraryConversions ==
    (<<"InHg", "HectoPascal">> :> Ratio(<<3386, 3886, 6667>>, 10)) @@
    (<<"Inch", "MilliMeter">> :> Ratio(<<254>>, 1)) @@
    (<<"Fahrenheit", "Celsius">> :> FahrenheitToCelsius)

\* a program that registers no conversion of its own
NoConversions == [c \in {} |-> Ratio(<<1>>, 0)]

\* units.NewRatioConversion(from, to, ratio) registers x * ratio from -> to
\* and the inverse, x / ratio, to -> from.
\* func init() of types.go:
\* units.NewRatioConversion(MilesPerHour, MetersPerSecond, 0.44704)
InitConversions ==
    (<<"MilesPerHour", "MetersPerSecond">> :> Ratio(<<4, 4704>>, 5)) @@
    (<<"MetersPerSecond", "MilesPerHour">> :>
        [kind |-> "inverse", minus |-> 0, groups |-> <<4, 4704>>, decimals |-> 5])

\* func setupUnits() of the earlier main, called before run:
\* units.NewRatioConversion(MetersPerSecond, MilesPerHour, 0.447)
setupUnits ==
    (<<"MetersPerSecond", "MilesPerHour">> :> Ratio(<<447>>, 3)) @@
    (<<"MilesPerHour", "MetersPerSecond">> :>
        [kind |-> "inverse", minus |-> 0, groups |-> <<447>>, decimals |-> 3])

\* x - k for a whole number k
Minus(x, k) ==
    IF x.e >= 0 THEN Num(x.m * Pow10(x.e) - k, 0)
    ELSE Num(x.m - k * Pow10(-x.e), x.e)

\* units.NewValue(x, from).Convert(to): fails when no conversion is
\* registered.  An infinity and NaN go through the arithmetic unchanged (the
\* ratios are positive); zero stays zero.  The quotient of an inverse
\* conversion is held as it is written, m * 10^e over the ratio's digits.
Convert(x, from, to, reg) ==
    IF <<from, to>> \notin DOMAIN reg THEN [ok |-> FALSE, val |-> <<>>]
    ELSE IF x.kind # "num" THEN [ok |-> TRUE, val |-> x]
    ELSE LET c == reg[<<from, to>>]
             y == Minus(x, c.minus)
         IN  [ok |-> TRUE,
              val |-> IF y.m = 0 THEN y
                      ELSE IF c.kind = "inverse"
                      THEN [kind |-> "quot", m |-> y.m, e |-> y.e + c.decimals,
                            over |-> c.groups]
                      ELSE [kind |-> "num",
                            groups |-> [i \in DOMAIN c.groups |-> y.m * c.groups[i]],
                            e |-> y.e - c.decimals]]

\* the zero value of a float64 field that is never assigned
ZeroFloat == Num(0, 0)

\* the wall clock of another zone, one hour east
OneHourEast(t) == [t EXCEPT !.h = (@ + 1) % 24]

\* time.Time(t).UTC(): the same instant; the decoder's instants are in UTC
UTC(t) == t

\* time.Duration(n): n nanoseconds
NanosToDuration(n) == [sec |-> 0, nsec |-> n]

\* time.Duration(n) * time.Second: a duration as whole seconds and the
\* nanoseconds beyond them
SecondsToDuration(n) == [sec |-> n, nsec |-> 0]

\* Duration.Seconds(): float64(sec) + float64(nsec)/1e9
DurationSeconds(d) ==
    LET f == Num(d.nsec, -NanoDigits)
    IN  IF f.m = 0 THEN Num(d.sec, 0) ELSE Num(d.sec * Pow10(-f.e) + f.m, f.e)

-----------------------------------------------------------------------------
(* types.go: NewWeatherData *)

NewWeatherData(p, reg) ==
    LET
        absPressure  == Convert(p.BaromAbsIn, "InHg", "HectoPascal", reg)
        relPressure  == Convert(p.BaromRelIn, "InHg", "HectoPascal", reg)
        dailyRain    == Convert(p.DailyRainIn, "Inch", "MilliMeter", reg)
        eventRain    == Convert(p.EventRainIn, "Inch", "MilliMeter", reg)
        monthlyRain  == Convert(p.MonthlyRainIn, "Inch", "MilliMeter", reg)
        rainRate     == Convert(p.RainRateIn, "Inch", "MilliMeter", reg)
        totalRain    == Convert(p.TotalRainIn, "Inch", "MilliMeter", reg)
        weeklyRain   == Convert(p.WeeklyRainIn, "Inch", "MilliMeter", reg)
        yearlyRain   == Convert(p.YearlyRainIn, "Inch", "MilliMeter", reg)
        outTemp      == Convert(p.Tempf, "Fahrenheit", "Celsius", reg)
        inTemp       == Convert(p.TempInF, "Fahrenheit", "Celsius", reg)
        maxDailyGust == Convert(p.MaxDailyGust, "MilesPerHour", "MetersPerSecond", reg)
        windGust     == Convert(p.WindGustMph, "MilesPerHour", "MetersPerSecond", reg)
        windSpeed    == Convert(p.WindSpeedMph, "MilesPerHour", "MetersPerSecond", reg)
        all == <<absPressure, relPressure, dailyRain, eventRain, monthlyRain, rainRate, totalRain, weeklyRain, yearlyRain, outTemp, inTemp, maxDailyGust, windGust, windSpeed>>
    IN  IF \E i \in DOMAIN all : ~all[i].ok
        THEN [ok |-> FALSE, wd |-> <<>>]
        ELSE [ok |-> TRUE, wd |-> [
                Passkey            |-> p.Passkey,
                AbsolutePressure   |-> absPressure.val,
                RelativePressure   |-> relPressure.val,
                Timestamp          |-> UTC(p.DateUTC),
                Frequency          |-> p.Freq,
                Heap               |-> p.Heap,
                DailyRain          |-> dailyRain.val,
                EventRain          |-> eventRain.val,
                HourlyRain         |-> ZeroFloat,
                MonthlyRain        |-> monthlyRain.val,
                RainRate           |-> rainRate.val,
                TotalRain          |-> totalRain.val,
                WeeklyRain         |-> weeklyRain.val,
                YearlyRain         |-> yearlyRain.val,
                OutdoorHumidity    |-> p.Humidity,
                IndoorHumidity     |-> p.HumidityIn,
                Interval           |-> SecondsToDuration(p.Interval),
                Model              |-> p.Model,
                Runtime            |-> p.Runtime,
                SolarRadiation     |-> p.SolarRadiation,
                StationType        |-> p.StationType,
                OutdoorTemperature |-> outTemp.val,
                IndoorTemperature  |-> inTemp.val,
                UV                 |-> p.UV,
                BatteryLevel       |-> p.Wh65Batt,
                MaxDailyGust       |-> maxDailyGust.val,
                WindDirection      |-> p.WindDir,
                WindGust           |-> windGust.val,
                WindSpeed          |-> windSpeed.val ]]

-----------------------------------------------------------------------------
(* main.go: sendMetrics *)

ColumnNames ==
    <<
       "time",
       "station",
       "pressure_absolute",
       "pressure_relative",
       "frequency",
       "heap",
       "daily_rain",
       "event_rain",
       "hourly_rain",
       "monthly_rain",
       "rain_rate",
       "total_rain",
       "weekly_rain",
       "yearly_rain",
       "humidity_outdoor",
       "humidity_indoor",
       "interval",
       "model",
       "runtime",
       "solar_radiation",
       "station_type",
       "temperature_outdoor",
       "temperature_indoor",
       "uv",
       "battery",
       "wind_max_daily_gust",
       "wind_direction",
       "wind_gust",
       "wind_speed"
    >>

makeColumnString(names) == names

\* "$1", ..., "$n": the placeholder numbers
makeValuesString(names) == [i \in DOMAIN names |-> i]

\* type WeatherData: the column each field is tagged with (`db:"..."`);
\* Passkey is tagged "-"
DbTags ==
    [ pressure_absolute   |-> "AbsolutePressure",
      pressure_relative   |-> "RelativePressure",
      time                |-> "Timestamp",
      frequency           |-> "Frequency",
      heap                |-> "Heap",
      daily_rain          |-> "DailyRain",
      event_rain          |-> "EventRain",
      hourly_rain         |-> "HourlyRain",
      monthly_rain        |-> "MonthlyRain",
      rain_rate           |-> "RainRate",
      total_rain          |-> "TotalRain",
      weekly_rain         |-> "WeeklyRain",
      yearly_rain         |-> "YearlyRain",
      humidity_outdoor    |-> "OutdoorHumidity",
      humidity_indoor     |-> "IndoorHumidity",
      interval            |-> "Interval",
      model               |-> "Model",
      runtime             |-> "Runtime",
      solar_radiation     |-> "SolarRadiation",
      station_type        |-> "StationType",
      temperature_outdoor |-> "OutdoorTemperature",
      temperature_indoor  |-> "IndoorTemperature",
      uv                  |-> "UV",
      battery             |-> "BatteryLevel",
      wind_max_daily_gust |-> "MaxDailyGust",
      wind_direction      |-> "WindDirection",
      wind_gust           |-> "WindGust",
      wind_speed          |-> "WindSpeed" ]

\* the WeatherData field each argument of pool.Exec reads, in order
BoundFields ==
    << "Timestamp", "StationType", "AbsolutePressure", "RelativePressure",
       "Frequency", "Heap", "DailyRain", "EventRain", "HourlyRain",
       "MonthlyRain", "RainRate", "TotalRain", "WeeklyRain", "YearlyRain",
       "OutdoorHumidity", "IndoorHumidity", "Interval", "Model", "Runtime",
       "SolarRadiation", "StationType", "OutdoorTemperature",
       "IndoorTemperature", "UV", "BatteryLevel", "MaxDailyGust",
       "WindDirection", "WindGust", "WindSpeed" >>

\* the arguments bound to the placeholders, in order
InsertArgs(wd) ==
    <<
       wd.Timestamp,
       wd.StationType,
       wd.AbsolutePressure,
       wd.RelativePressure,
       wd.Frequency,
       wd.Heap,
       wd.DailyRain,
       wd.EventRain,
       wd.HourlyRain,
       wd.MonthlyRain,
       wd.RainRate,
       wd.TotalRain,
       wd.WeeklyRain,
       wd.YearlyRain,
       wd.OutdoorHumidity,
       wd.IndoorHumidity,
       DurationSeconds(wd.Interval),
       wd.Model,
       wd.Runtime,
       wd.SolarRadiation,
       wd.StationType,
       wd.OutdoorTemperature,
       wd.IndoorTemperature,
       wd.UV,
       wd.BatteryLevel,
       wd.MaxDailyGust,
       wd.WindDirection,
       wd.WindGust,
       wd.WindSpeed
    >>

\* the statement handed to pool.Exec
sendMetrics(wd) ==
    [columns |-> makeColumnString(ColumnNames),
     values  |-> makeValuesString(ColumnNames),
     args    |-> InsertArgs(wd)]

-----------------------------------------------------------------------------
(* Initial states.  Each specification draws the arguments of the call it
   studies; everything else rests in its idle state. *)

OffsetIdle ==
    odPc = "idle" /\ odIn = 0 /\ odOff = 0 /\ odRet = 0 /\ odBack = 0

CompassIdle ==
    wnPc = "idle" /\ wnIn = 0 /\ wnRet = [name |-> "", err |-> NilErr]

DecodeIdle ==
    /\ pvPc = "idle" /\ pvIn = <<>> /\ pvOrder = <<>>
    /\ pvMsg = ZeroStruct(PayloadFields) /\ pvErr = NoError

Requests == 1 .. NumRequests

StatusOK == 200
StatusBadRequest == 400
StatusInternalServerError == 500

\* run(): makeHandler(logger, conf, pool, -90)
ConfiguredOffset == -90

\* the windOffset argument of makeHandler: run passes ConfiguredOffset; with
\* 0 the handler skips the correction
OffsetChoices == {ConfiguredOffset, 0}

NilData == <<>>

ServerIdle ==
    /\ serving = FALSE
    /\ units = LibraryConversions @@ InitConversions
    /\ windOffset = ConfiguredOffset
    /\ hReq = [r \in Requests |-> BadRequest]
    /\ hPc = [r \in Requests |-> "done"]
    /\ hPayload = [r \in Requests |-> ZeroStruct(payloadFields)]
    /\ hData = [r \in Requests |-> NilData]
    /\ hStatus = [r \in Requests |-> 0]
    /\ hCalls = [r \in Requests |-> <<>>]
    /\ sink = <<>>

NormalizeIdle ==
    /\ nwPc = "idle" /\ nwIn = ZeroStruct(payloadFields) /\ nwField = ""
    /\ nwRet = NilData /\ nwAlt = NilData

ConvertIdle ==
    cvPc = "idle" /\ cvIn = ZeroFloat /\ cvRet = NilData

-----------------------------------------------------------------------------
(* Calls of offsetDegrees *)

InitOffset ==
    /\ CompassIdle /\ DecodeIdle /\ NormalizeIdle /\ ConvertIdle /\ ServerIdle
    /\ odPc = "idle"
    /\ odRet = 0 /\ odBack = 0
    /\ odIn \in 0 .. FullTurn
    /\ odOff \in -MaxOffset .. MaxOffset

\* corrected := offsetDegrees(raw, offset), raw as the station sends it
CallOffsetDegrees ==
    /\ odPc = "idle"
    /\ odPc' = "called"
    /\ odRet' = offsetDegrees(odIn, odOff)
    /\ UNCHANGED <<odIn, odOff, odBack>>
    /\ UNCHANGED <<compassVars, decodeVars, normalizeVars, convertVars, serverVars>>

\* back := offsetDegrees(corrected, -offset)
CallOffsetNegated ==
    /\ odPc = "called"
    /\ odPc' = "undone"
    /\ odBack' = offsetDegrees(odRet, -odOff)
    /\ UNCHANGED <<odIn, odOff, odRet>>
    /\ UNCHANGED <<compassVars, decodeVars, normalizeVars, convertVars, serverVars>>

NextOffset == CallOffsetDegrees \/ CallOffsetNegated

SpecOffset == InitOffset /\ [][NextOffset]_vars

-----------------------------------------------------------------------------
(* Calls of windDegreesToName *)

InitCompass ==
    /\ OffsetIdle /\ DecodeIdle /\ NormalizeIdle /\ ConvertIdle /\ ServerIdle
    /\ wnPc = "idle"
    /\ wnRet = [name |-> "", err |-> NilErr]
    /\ wnIn \in -MaxOver .. FullTurn + MaxOver

CallWindDegreesToName ==
    /\ wnPc = "idle"
    /\ wnPc' = "called"
    /\ wnRet' = windDegreesToName(wnIn)
    /\ UNCHANGED wnIn
    /\ UNCHANGED <<offsetVars, decodeVars, normalizeVars, convertVars, serverVars>>

NextCompass == CallWindDegreesToName

SpecCompass == InitCompass /\ [][NextCompass]_vars

-----------------------------------------------------------------------------
(* Calls of Payload.ParseValues *)

InitDecode ==
    /\ OffsetIdle /\ CompassIdle /\ NormalizeIdle /\ ConvertIdle /\ ServerIdle
    /\ pvPc = "idle"
    /\ pvMsg = ZeroStruct(PayloadFields)
    /\ pvErr = NoError
    /\ pvIn \in SampleInputs
    /\ pvOrder \in Orders(DOMAIN pvIn)

\* var payload Payload; err := payload.ParseValues(r.Form)
CallParseValues ==
    /\ pvPc = "idle"
    /\ pvPc' = "done"
    /\ LET r == ParseValues(pvMsg, pvIn, pvOrder)
       IN  pvMsg' = r.msg /\ pvErr' = r.err
    /\ UNCHANGED <<pvIn, pvOrder>>
    /\ UNCHANGED <<offsetVars, compassVars, normalizeVars, convertVars, serverVars>>

NextDecode == CallParseValues

SpecDecode == InitDecode /\ [][NextDecode]_vars

-----------------------------------------------------------------------------
(* main.go: the report handler *)

\* The orders in which Decode may visit the form of a request.  The order
\* matters only between keys that fold to the same field; the larger sample
\* forms hold no such keys and are visited in wire order.
FormOrders(rq) ==
    IF Cardinality(DOMAIN rq.form) <= MaxKeys
    THEN Orders(DOMAIN rq.form)
    ELSE {rq.keys}

\* what the handler does with the outcome of r.ParseForm() and of
\* formDecoder.Decode: reject with 400 and return, or go on
AfterDecodeContinue(failed, next) == [status |-> 0, pc |-> next]
AfterDecode(failed, next) ==
    IF failed THEN [status |-> StatusBadRequest, pc |-> "done"]
    ELSE [status |-> 0, pc |-> next]

\* what the handler does after sendMetrics returned: it logs an error and
\* returns either way
AfterExecRetry(succeeded) == IF succeeded THEN "done" ELSE "send"
AfterExec(succeeded) == "done"

\* the state once package initialisation (func init) is over and main runs
InitServer ==
    /\ serving = FALSE
    /\ units = LibraryConversions @@ InitConversions
    /\ windOffset \in OffsetChoices
    /\ hReq \in [Requests -> SampleRequests]
    /\ hPc = [r \in Requests |-> "start"]
    /\ hPayload = [r \in Requests |-> ZeroStruct(payloadFields)]
    /\ hData = [r \in Requests |-> NilData]
    /\ hStatus = [r \in Requests |-> 0]
    /\ hCalls = [r \in Requests |-> <<>>]
    /\ sink = <<>>
    /\ OffsetIdle /\ CompassIdle /\ DecodeIdle /\ NormalizeIdle /\ ConvertIdle

\* run(): http.Handle(...); http.ListenAndServe(...)
StartServer ==
    /\ ~serving
    /\ serving' = TRUE
    /\ UNCHANGED <<units, windOffset, hReq, hPc, hPayload, hData, hStatus, hCalls, sink>>
    /\ UNCHANGED <<offsetVars, compassVars, decodeVars, normalizeVars, convertVars>>

\* r.ParseForm()
ParseForm(r) ==
    /\ serving /\ hPc[r] = "start"
    /\ LET after == AfterDecode(~hReq[r].bodyOK, "decode")
       IN  /\ hPc' = [hPc EXCEPT ![r] = after.pc]
           /\ hStatus' = [hStatus EXCEPT ![r] = after.status]
    /\ hCalls' = [hCalls EXCEPT ![r] = Append(@, "ParseForm")]
    /\ UNCHANGED <<serving, units, windOffset, hReq, hPayload, hData, sink>>
    /\ UNCHANGED <<offsetVars, compassVars, decodeVars, normalizeVars, convertVars>>

\* a handler decoding into a payload that requests share
DecodeFormShared(r) ==
    /\ serving /\ hPc[r] = "decode"
    /\ \E q \in Requests : \E order \in FormOrders(hReq[r]) :
         LET res == Decode(hPayload[q], hReq[r].form, order)
             after == AfterDecode(res.errs # {}, "offset")
         IN  /\ hPayload' = [hPayload EXCEPT ![r] = res.p]
             /\ hPc' = [hPc EXCEPT ![r] = after.pc]
             /\ hStatus' = [hStatus EXCEPT ![r] = after.status]
    /\ hCalls' = [hCalls EXCEPT ![r] = Append(@, "Decode")]
    /\ UNCHANGED <<serving, units, windOffset, hReq, hData, sink>>
    /\ UNCHANGED <<offsetVars, compassVars, decodeVars, normalizeVars, convertVars>>

\* var p payload; formDecoder.Decode(&p, r.Form)
DecodeForm(r) ==
    /\ serving /\ hPc[r] = "decode"
    /\ \E order \in FormOrders(hReq[r]) :
         LET res == Decode(hPayload[r], hReq[r].form, order)
             after == AfterDecode(res.errs # {}, "offset")
         IN  /\ hPayload' = [hPayload EXCEPT ![r] = res.p]
             /\ hPc' = [hPc EXCEPT ![r] = after.pc]
             /\ hStatus' = [hStatus EXCEPT ![r] = after.status]
    /\ hCalls' = [hCalls EXCEPT ![r] = Append(@, "Decode")]
    /\ UNCHANGED <<serving, units, windOffset, hReq, hData, sink>>
    /\ UNCHANGED <<offsetVars, compassVars, decodeVars, normalizeVars, convertVars>>

\* a handler that corrects the direction whatever the offset
ApplyOffsetAlways(r) ==
    /\ serving /\ hPc[r] = "offset"
    /\ hPayload' = [hPayload EXCEPT ![r].WindDir = offsetDegrees(@, windOffset)]
    /\ hCalls' = [hCalls EXCEPT ![r] = Append(@, "offsetDegrees")]
    /\ hPc' = [hPc EXCEPT ![r] = "convert"]
    /\ UNCHANGED <<serving, units, windOffset, hReq, hData, hStatus, sink>>
    /\ UNCHANGED <<offsetVars, compassVars, decodeVars, normalizeVars, convertVars>>

\* if windOffset != 0 { p.WindDir = offsetDegrees(p.WindDir, windOffset) }
ApplyOffset(r) ==
    /\ serving /\ hPc[r] = "offset"
    /\ IF windOffset # 0
       THEN /\ hPayload' = [hPayload EXCEPT ![r].WindDir = offsetDegrees(@, windOffset)]
            /\ hCalls' = [hCalls EXCEPT ![r] = Append(@, "offsetDegrees")]
       ELSE UNCHANGED <<hPayload, hCalls>>
    /\ hPc' = [hPc EXCEPT ![r] = "convert"]
    /\ UNCHANGED <<serving, units, windOffset, hReq, hData, hStatus, sink>>
    /\ UNCHANGED <<offsetVars, compassVars, decodeVars, normalizeVars, convertVars>>

\* wd, err := NewWeatherData(p)
Normalize(r) ==
    /\ serving /\ hPc[r] = "convert"
    /\ LET res == NewWeatherData(hPayload[r], units)
       IN  IF res.ok
           THEN /\ hData' = [hData EXCEPT ![r] = res.wd]
                /\ hPc' = [hPc EXCEPT ![r] = "send"]
                /\ UNCHANGED hStatus
           ELSE /\ hStatus' = [hStatus EXCEPT ![r] = StatusInternalServerError]
                /\ hPc' = [hPc EXCEPT ![r] = "done"]
                /\ UNCHANGED hData
    /\ hCalls' = [hCalls EXCEPT ![r] = Append(@, "NewWeatherData")]
    /\ UNCHANGED <<serving, units, windOffset, hReq, hPayload, sink>>
    /\ UNCHANGED <<offsetVars, compassVars, decodeVars, normalizeVars, convertVars>>

\* sendMetrics(wd, pool, table) up to its call of pool.Exec: the INSERT is
\* handed to the pool and the handler waits for the answer (at most the 20
\* seconds of the context).
SendMetrics(r) ==
    /\ serving /\ hPc[r] = "send"
    /\ hPc' = [hPc EXCEPT ![r] = "exec"]
    /\ hCalls' = [hCalls EXCEPT ![r] = Append(@, "Exec")]
    /\ UNCHANGED <<serving, units, windOffset, hReq, hPayload, hData, hStatus, sink>>
    /\ UNCHANGED <<offsetVars, compassVars, decodeVars, normalizeVars, convertVars>>

\* the database stores the row of the INSERT while the handler waits inside
\* pool.Exec
ExecStores(r) ==
    /\ serving /\ hPc[r] = "exec"
    /\ ~\E i \in DOMAIN sink : sink[i].req = r
    /\ sink' = Append(sink, [req |-> r, stmt |-> sendMetrics(hData[r])])
    /\ UNCHANGED <<serving, units, windOffset, hReq, hPc, hPayload, hData, hStatus, hCalls>>
    /\ UNCHANGED <<offsetVars, compassVars, decodeVars, normalizeVars, convertVars>>

\* pool.Exec returns: nil only when the row was stored, an error when the
\* database refused the statement, could not be reached, or did not answer
\* before the deadline (the row may have been stored all the same).  The
\* handler logs an error and returns; the response is the implicit 200.
ExecReturns(r) ==
    /\ serving /\ hPc[r] = "exec"
    /\ \E succeeded \in BOOLEAN :
         /\ succeeded => \E i \in DOMAIN sink : sink[i].req = r
         /\ hPc' = [hPc EXCEPT ![r] = AfterExec(succeeded)]
    /\ hStatus' = [hStatus EXCEPT ![r] = StatusOK]
    /\ UNCHANGED <<serving, units, windOffset, hReq, hPayload, hData, hCalls, sink>>
    /\ UNCHANGED <<offsetVars, compassVars, decodeVars, normalizeVars, convertVars>>

Next ==
    \/ StartServer
    \/ \E r \in Requests : ParseForm(r)
    \/ \E r \in Requests : DecodeForm(r)
    \/ \E r \in Requests : ApplyOffset(r)
    \/ \E r \in Requests : Normalize(r)
    \/ \E r \in Requests : SendMetrics(r)
    \/ \E r \in Requests : ExecStores(r)
    \/ \E r \in Requests : ExecReturns(r)

Spec == InitServer /\ [][Next]_vars

-----------------------------------------------------------------------------
(* Calls of NewWeatherData, on a payload and on the same payload with one
   field changed *)

\* the payloads decoded from the accepted sample reports
SamplePayloads ==
    {Decode(ZeroStruct(payloadFields), ParseQuery(q), KeysOf(q)).p :
        q \in {QuerySample, QueryNorth, QueryUpper}}

FieldNames(fields) == {fields[i].name : i \in DOMAIN fields}
KindOf(fields, n) == fields[CHOOSE i \in DOMAIN fields : fields[i].name = n].kind

\* another value of the same kind
Perturb(pl, n) ==
    LET k == KindOf(payloadFields, n)
    IN  [pl EXCEPT ![n] =
            CASE k = "string"  -> Append(@, "x")
              [] k = "float64" -> Minus(@, -1)
              [] k = "int"     -> @ + 1
              [] k = "time"    -> [@ EXCEPT !.Y = @ + 1]]

InitNormalize ==
    /\ OffsetIdle /\ CompassIdle /\ DecodeIdle /\ ConvertIdle /\ ServerIdle
    /\ nwPc = "idle"
    /\ nwRet = NilData /\ nwAlt = NilData
    /\ nwIn \in SamplePayloads
    /\ nwField \in FieldNames(payloadFields)

CallNewWeatherData ==
    /\ nwPc = "idle"
    /\ nwPc' = "done"
    /\ nwRet' = NewWeatherData(nwIn, units)
    /\ nwAlt' = NewWeatherData(Perturb(nwIn, nwField), units)
    /\ UNCHANGED <<nwIn, nwField>>
    /\ UNCHANGED <<offsetVars, compassVars, decodeVars, convertVars, serverVars>>

NextNormalize == CallNewWeatherData

SpecNormalize == InitNormalize /\ [][NextNormalize]_vars

-----------------------------------------------------------------------------
(* A conversion of a speed in miles per hour to meters per second, as
   TestMilesPerHourConversion, NewWeatherData and the earlier sendMetrics
   make it: units.NewValue(v, MilesPerHour).Convert(MetersPerSecond).  The
   registry is the one the program's own registration has left: func init
   of types.go, or setupUnits of the earlier main. *)

InitConvert ==
    /\ OffsetIdle /\ CompassIdle /\ DecodeIdle /\ NormalizeIdle
    /\ serving = FALSE
    /\ windOffset = ConfiguredOffset
    /\ hReq = [r \in Requests |-> BadRequest]
    /\ hPc = [r \in Requests |-> "done"]
    /\ hPayload = [r \in Requests |-> ZeroStruct(payloadFields)]
    /\ hData = [r \in Requests |-> NilData]
    /\ hStatus = [r \in Requests |-> 0]
    /\ hCalls = [r \in Requests |-> <<>>]
    /\ sink = <<>>
    /\ cvPc = "idle"
    /\ cvRet = NilData
    /\ units \in {LibraryConversions @@ InitConversions,
                  LibraryConversions @@ setupUnits}
    /\ cvIn \in {Num(m, e) : m \in 0 .. MaxMph, e \in {-1, 0}}

CallConvert ==
    /\ cvPc = "idle"
    /\ cvPc' = "done"
    /\ cvRet' = Convert(cvIn, "MilesPerHour", "MetersPerSecond", units)
    /\ UNCHANGED cvIn
    /\ UNCHANGED <<offsetVars, compassVars, decodeVars, normalizeVars, serverVars>>

NextConvert == CallConvert

SpecConvert == InitConvert /\ [][NextConvert]_vars

-----------------------------------------------------------------------------
(* Claims about offsetDegrees *)

\* ((a mod 360) + 360) mod 360 with the mathematical, non-negative mod
MathMod360(a) == ((a % FullTurn) + FullTurn) % FullTurn

\* C1: for every raw in [0,360] and every signed offset, offsetDegrees(raw,
\* offset) = ((raw + offset) mod 360 + 360) mod 360.
C1_OffsetFormula ==
    odPc # "idle" => odRet = MathMod360(odIn + odOff)

\* C2: the corrected direction is always in [0, 360).
C2_OffsetInRange ==
    odPc # "idle" => (odRet >= 0 /\ odRet < FullTurn)

\* C3: applying an offset and then its negation gives raw mod 360.
C3_OffsetRoundTrip ==
    odPc = "undone" => odBack = odIn % FullTurn

-----------------------------------------------------------------------------
(* Claims about Payload.ParseValues.  The expectations below are written out
   by hand for the sample keys and values, independently of the decoder. *)

\* the schema field each sample key is meant to reach ("" for none)
KeyTarget(k) ==
    CASE k \in {K_TempF, K_tempf, K_TEMPF} -> "Tempf"
      [] k = K_PASSKEY -> "Passkey"
      [] k = K_winddir -> "WindDir"
      [] k = K_dateutc -> "DateUTC"
      [] OTHER -> ""

TargetKind(n) ==
    CASE n = "Tempf" -> "float64"
      [] n = "Passkey" -> "string"
      [] n = "WindDir" -> "int"
      [] n = "DateUTC" -> "time"

SampleStamp == [Y |-> 2024, M |-> 6, D |-> 16, h |-> 16, m |-> 32, s |-> 8, ns |-> 0]

\* the number m * 10^e, written out
Float(m, e) == [kind |-> "num", m |-> m, e |-> e]

\* what a sample value is as a value of the given kind
Expected(kind, raw) ==
    CASE kind = "string" -> [ok |-> TRUE, val |-> raw]
      [] kind = "float64" /\ raw = V_48 -> [ok |-> TRUE, val |-> Float(48, 0)]
      [] kind = "float64" /\ raw = V_7p5 -> [ok |-> TRUE, val |-> Float(75, -1)]
      [] kind = "float64" /\ raw = V_212e -> [ok |-> TRUE, val |-> Float(212, 0)]
      [] kind = "int" /\ raw = V_48 -> [ok |-> TRUE, val |-> 48]
      [] kind = "time" /\ raw = V_stamp -> [ok |-> TRUE, val |-> SampleStamp]
      [] OTHER -> [ok |-> FALSE, val |-> 0]

\* key k of mapping v is unknown, arrived with no value, or its first value
\* cannot be coerced to its field's type
Offending(v, k) ==
    \/ KeyTarget(k) = ""
    \/ Len(v[k]) = 0
    \/ ~Expected(TargetKind(KeyTarget(k)), v[k][1]).ok

ExpectedOf(v, k) == Expected(TargetKind(KeyTarget(k)), v[k][1]).val

\* the positions of `order` visited before the loop returned
Visited ==
    IF pvErr = NoError THEN DOMAIN pvOrder
    ELSE {i \in DOMAIN pvOrder : \E j \in DOMAIN pvOrder : i < j /\ pvOrder[j] = pvErr.key}

\* every field reached by a successfully visited key holds the first value
\* of the key that reached it last
VisitedFieldsHold ==
    \A i \in Visited :
        LET n == KeyTarget(pvOrder[i])
            last == CHOOSE j \in Visited :
                        /\ KeyTarget(pvOrder[j]) = n
                        /\ \A l \in Visited : KeyTarget(pvOrder[l]) = n => l <= j
        IN  pvMsg[n] = ExpectedOf(pvIn, pvOrder[last])

\* C7: keys match schema fields ignoring case: a key in any mix of case
\* populates the same field with the same decoded value, and no other field.
C7_CaseInsensitive ==
    (pvPc = "done" /\ \A k \in DOMAIN pvIn : ~Offending(pvIn, k)) =>
        /\ pvErr = NoError
        /\ \A n \in DOMAIN pvMsg :
               LET ks == {k \in DOMAIN pvIn : KeyTarget(k) = n}
               IN  IF ks = {}
                   THEN pvMsg[n] = ZeroStruct(PayloadFields)[n]
                   ELSE \E k \in ks : pvMsg[n] = ExpectedOf(pvIn, k)

C7_Witness ==
    /\ pvPc = "done" /\ pvErr = NoError
    /\ DOMAIN pvIn = {K_TEMPF, K_PASSKEY, K_winddir}
    /\ pvMsg.Tempf = Float(75, -1) /\ pvMsg.Passkey = V_7p5 /\ pvMsg.WindDir = 48

\* C8: decoding fails exactly when some key is unknown, has no value, or has
\* an uncoercible first value; otherwise every named field holds the parsed
\* first value of its key.
C8_ErrorIff ==
    pvPc = "done" =>
        /\ (pvErr # NoError) <=> (\E k \in DOMAIN pvIn : Offending(pvIn, k))
        /\ (pvErr = NoError) => VisitedFieldsHold

C8_Witness ==
    /\ pvPc = "done" /\ pvErr = NoError
    /\ K_winddir \in DOMAIN pvIn /\ pvIn[K_winddir] = <<V_48, V_x>>
    /\ pvMsg.WindDir = 48

\* C9: a failed decode names a key of the input that is really offending,
\* and the valid fields processed before the failure keep their values.
C9_ErrorNamesOffender ==
    (pvPc = "done" /\ pvErr # NoError) =>
        /\ pvErr.key \in DOMAIN pvIn
        /\ Offending(pvIn, pvErr.key)
        /\ pvErr.kind = (IF Len(pvIn[pvErr.key]) = 0 THEN "have no values"
                         ELSE IF KeyTarget(pvErr.key) = "" THEN "no such field"
                         ELSE "error parsing")
        /\ VisitedFieldsHold

C9_Witness ==
    /\ pvPc = "done" /\ pvErr = ErrParsing(K_tempf)
    /\ Len(pvOrder) = 3 /\ pvOrder[1] = K_winddir /\ pvOrder[2] = K_tempf
    /\ pvMsg.WindDir = 48

-----------------------------------------------------------------------------
(* Claims about NewWeatherData *)

\* the measurement fields the payload carries for the observation: all of
\* the payload but the vapour pressure deficit
MeasurementFields == FieldNames(payloadFields) \ {"VPD"}

\* the fields in which two observations differ
Differing(a, b) == {g \in DOMAIN a : a[g] # b[g]}

\* C4: every measurement field of the payload has exactly one field of the
\* WeatherData whose value it determines; none is dropped or left at zero.
C4_EveryFieldCarried ==
    (nwPc = "done" /\ nwField \in MeasurementFields) =>
        /\ nwRet.ok /\ nwAlt.ok
        /\ Cardinality(Differing(nwRet.wd, nwAlt.wd)) = 1

-----------------------------------------------------------------------------
(* Claims about the report handler *)

Called(r, what) == \E i \in DOMAIN hCalls[r] : hCalls[r][i] = what

\* the request's form could not be parsed, or could not be decoded, and the
\* handler has seen it
Failed(r) ==
    \/ ~hReq[r].bodyOK /\ Called(r, "ParseForm")
    \/ hReq[r].bodyOK /\ hReq[r].expect = "reject" /\ Called(r, "Decode")

\* C10: when form parsing or payload decoding fails the request is rejected
\* with a client error and processing stops: no offset is applied,
\* NewWeatherData is not called, nothing reaches the persistence sink.
C10_RejectedStops ==
    \A r \in Requests :
        Failed(r) =>
            /\ hStatus[r] = StatusBadRequest
            /\ hPc[r] = "done"
            /\ ~Called(r, "offsetDegrees")
            /\ ~Called(r, "NewWeatherData")
            /\ ~Called(r, "Exec")
            /\ hData[r] = NilData
            /\ \A i \in DOMAIN sink : sink[i].req # r

C10_Witness ==
    \E r, q \in Requests :
        /\ hReq[r].form = FormBadNumber /\ hStatus[r] = StatusBadRequest
        /\ Called(r, "Decode")
        /\ hPayload[r].Tempf = Float(75, -1)
        /\ \E i \in DOMAIN sink : sink[i].req = q

-----------------------------------------------------------------------------
(* Claims about windDegreesToName *)

\* the compass point whose sector centre (k * 22.5 degrees) is nearest to d
NearestPoint(d) ==
    LET k == CHOOSE j \in 0 .. Len(WindDirections) :
                 /\ 4 * d - 90 * j < 45
                 /\ 90 * j - 4 * d <= 45
    IN  WindDirections[(k % Len(WindDirections)) + 1]

\* C5: for every d in [0,360] the lookup succeeds with the point of index
\* floor(d/22.5 + 0.5) mod 16, an index within 0..15; 0, 1, 359, 360 give N,
\* 12 gives NNE, 180 gives S.
C5_CompassPoint ==
    (wnPc = "called" /\ wnIn \in 0 .. FullTurn) =>
        /\ wnRet.err = NilErr
        /\ (windIndex(wnIn) % Len(WindDirections)) \in 0 .. 15
        /\ wnRet.name = NearestPoint(wnIn)
        /\ (wnIn \in {0, 1, 359, 360} => wnRet.name = "N")
        /\ (wnIn = 12 => wnRet.name = "NNE")
        /\ (wnIn = 180 => wnRet.name = "S")

C5_Witness ==
    wnPc = "called" /\ wnIn = 360 /\ wnRet.name = "N"

\* C6: the lookup fails, with the empty name, exactly when d < 0 or d > 360,
\* and the error carries the offending value.
C6_CompassError ==
    wnPc = "called" =>
        /\ (wnRet.err # NilErr) <=> (wnIn < 0 \/ wnIn > FullTurn)
        /\ (wnRet.err # NilErr) =>
               (wnRet.name = "" /\ wnRet.err = InvalidDegrees(wnIn))

C6_Witness ==
    wnPc = "called" /\ wnIn = 361 /\ wnRet.err = InvalidDegrees(361)

-----------------------------------------------------------------------------
(* Claims about what reaches the persistence sink *)

\* the number of pool.Exec calls made for request r
ExecCount(r) == Cardinality({i \in DOMAIN hCalls[r] : hCalls[r][i] = "Exec"})

\* the statements of request r that the database accepted
Stored(r) == {i \in DOMAIN sink : sink[i].req = r}

\* C11: the sink receives at most one INSERT per report: exactly one once a
\* report whose form parses, decodes and normalizes has been handled, none
\* for any other report; a refused INSERT is not sent again.
C11_AtMostOneInsert ==
    \A r \in Requests :
        /\ ExecCount(r) <= 1
        /\ Cardinality(Stored(r)) <= ExecCount(r)
        /\ hPc[r] = "done" =>
               ExecCount(r) = (IF hReq[r].expect = "accept" THEN 1 ELSE 0)

C11_Witness ==
    \E r, q \in Requests :
        /\ hPc[r] = "done" /\ ExecCount(r) = 1 /\ Stored(r) = {}
        /\ hPc[q] = "done" /\ ExecCount(q) = 1 /\ Cardinality(Stored(q)) = 1

-----------------------------------------------------------------------------
(* Claims about requests handled side by side *)

\* the payload after the handler's correction of the wind direction
Corrected(pl, off) ==
    IF off # 0 THEN [pl EXCEPT !.WindDir = offsetDegrees(@, off)] ELSE pl

\* the observations a report gives when it is the only one handled
Alone(rq, off) ==
    {NewWeatherData(Corrected(Decode(ZeroStruct(payloadFields), rq.form, o).p, off),
                    LibraryConversions @@ InitConversions).wd :
        o \in FormOrders(rq)}

\* Alone, worked out once for every sample request and offset
AloneTable ==
    {[rq |-> rq, off |-> off, wds |-> Alone(rq, off)] :
        rq \in SampleRequests, off \in OffsetChoices}

\* C12: in every interleaving of the requests, the observation produced for
\* a report is the one the report gives when handled alone: it depends on
\* the report's form and the wind-direction offset only.
C12_Stateless ==
    \A r \in Requests :
        hData[r] # NilData =>
            \E a \in AloneTable :
                a.rq = hReq[r] /\ a.off = windOffset /\ hData[r] \in a.wds

C12_Witness ==
    \E r, q \in Requests :
        /\ hReq[r].form = FormSample /\ hReq[q].form = FormNorth
        /\ hData[r] # NilData /\ hData[q] # NilData
        /\ hData[r] # hData[q]
        /\ hPc[r] = "send" /\ hPc[q] = "send"

-----------------------------------------------------------------------------
(* Claims about the wind speeds *)

\* the wind speeds of the payload and the fields of the WeatherData made
\* from them
\* the calls of NewWeatherData made: the argument and the result
NormalizeCalls ==
    { [p |-> nwIn, ret |-> nwRet],
      [p |-> Perturb(nwIn, nwField), ret |-> nwAlt] }

\* v * 0.44704 for a speed v = m * 10^e: 44704 * m * 10^(e - 5), the product
\* held in two groups of digits
IsMphProduct(out, in) ==
    IF in.m = 0 THEN out = Float(0, 0)
    ELSE /\ out.kind = "num"
         /\ Len(out.groups) = 2
         /\ out.groups[1] * 10000 + out.groups[2] = in.m * 44704
         /\ out.e = in.e - 5

\* C13: the conversion the program registers turns v mph into v * 0.44704
\* m/s for every valid v, and 1 mph into 0.44704.
C13_MphFactor ==
    cvPc = "done" => cvRet.ok /\ IsMphProduct(cvRet.val, cvIn)

\* the same for the registration of func init of types.go alone
MphFactorOfInit ==
    units = LibraryConversions @@ InitConversions => C13_MphFactor

-----------------------------------------------------------------------------
(* Claims about well-formed reports *)

\* C14: a report whose keys match schema fields and whose values are well
\* formed decodes without error; a timestamp in the layout
\* YYYY-MM-DD HH:MM:SS decodes to the UTC instant with the same wall-clock
\* fields and reaches Timestamp unchanged; the sample report gives
\* TempInF = 70.0 and DateUTC = 2024-06-16 16:32:08.
C14_WellFormedDecodes ==
    \A r \in Requests :
        (hReq[r].expect = "accept" /\ Called(r, "Decode")) =>
            /\ hStatus[r] # StatusBadRequest
            /\ K_dateutc \in DOMAIN hReq[r].form =>
                   /\ hReq[r].form[K_dateutc] = <<V_stamp>>
                   /\ hPayload[r].DateUTC = SampleStamp
                   /\ hData[r] # NilData => hData[r].Timestamp = SampleStamp
            /\ hReq[r].form = FormSample => hPayload[r].TempInF = Float(7, 1)
            /\ hReq[r].form = FormUpper =>
                   /\ hPayload[r].Tempf = Float(212, 0)
                   /\ hPayload[r].DateUTC = SampleStamp
            /\ hReq[r].form = FormFullTurn =>
                   hPayload[r].BaromRelIn = Float(299201, -4)

C14_Witness ==
    \E r, q \in Requests :
        /\ hReq[r].form = FormSample /\ hStatus[r] = StatusOK
        /\ hPayload[r].TempInF = Float(7, 1)
        /\ hPayload[r].DateUTC = SampleStamp
        /\ hData[r] # NilData /\ hData[r].Timestamp = SampleStamp
        /\ hReq[q].form = FormUpper /\ hStatus[q] = StatusOK
        /\ hPayload[q].Tempf = Float(212, 0)
        /\ hPayload[q].DateUTC = SampleStamp

-----------------------------------------------------------------------------
(* Claims about the conversions NewWeatherData asks for *)

\* the conversions NewWeatherData requests
NeededConversions ==
    { <<"InHg", "HectoPascal">>, <<"Inch", "MilliMeter">>,
      <<"Fahrenheit", "Celsius">>, <<"MilesPerHour", "MetersPerSecond">> }

\* C15: NewWeatherData never fails: every conversion it requests is
\* registered from the moment the server accepts requests, the mph to m/s
\* one by the program's initialisation.
C15_NeverFails ==
    /\ serving => NeededConversions \subseteq DOMAIN units
    /\ \A r \in Requests :
           /\ hStatus[r] # StatusInternalServerError
           /\ Called(r, "NewWeatherData") => hData[r] # NilData

C15_Witness ==
    \E r \in Requests :
        /\ serving /\ Called(r, "NewWeatherData")
        /\ hReq[r].form = FormSample
        /\ hData[r] # NilData
        /\ hData[r].WindSpeed =
               [kind |-> "num", groups |-> <<4 * 22, 4704 * 22>>, e |-> -7]

-----------------------------------------------------------------------------
(* Claims about the wiring of NewWeatherData *)

\* a number converted within a unit family, worked out by hand:
\* 33.8638866667 hPa per inHg, 25.4 mm per inch, (F - 32) * 5 over 9,
\* 0.44704 m/s per mph
ExpectedValue(family, x) ==
    LET y == IF family # "temperature" THEN x
             ELSE IF x.e >= 0 THEN Num(x.m * Pow10(x.e) - 32, 0)
             ELSE Num(x.m - 32 * Pow10(-x.e), x.e)
        Times(groups, decimals) ==
            IF y.m = 0 THEN Float(0, 0)
            ELSE [kind |-> "num",
                  groups |-> [i \in DOMAIN groups |-> groups[i] * y.m],
                  e |-> y.e - decimals]
    IN  CASE family = "pressure"    -> Times(<<3386, 3886, 6667>>, 10)
          [] family = "length"      -> Times(<<254>>, 1)
          [] family = "temperature" -> Times(<<5>>, 0)
          [] family = "speed"       -> Times(<<4, 4704>>, 5)

W(out, in, family) == [out |-> out, in |-> in, family |-> family]

\* the converted fields of the WeatherData, each with its payload field
Wiring ==
    { W("AbsolutePressure", "BaromAbsIn", "pressure"),
      W("RelativePressure", "BaromRelIn", "pressure"),
      W("DailyRain", "DailyRainIn", "length"),
      W("EventRain", "EventRainIn", "length"),
      W("HourlyRain", "HourlyRainIn", "length"),
      W("MonthlyRain", "MonthlyRainIn", "length"),
      W("RainRate", "RainRateIn", "length"),
      W("TotalRain", "TotalRainIn", "length"),
      W("WeeklyRain", "WeeklyRainIn", "length"),
      W("YearlyRain", "YearlyRainIn", "length"),
      W("OutdoorTemperature", "Tempf", "temperature"),
      W("IndoorTemperature", "TempInF", "temperature"),
      W("MaxDailyGust", "MaxDailyGust", "speed"),
      W("WindGust", "WindGustMph", "speed"),
      W("WindSpeed", "WindSpeedMph", "speed") }

\* C16: every converted field of the WeatherData is the conversion, in its
\* own unit family, of its own payload field, and changes with no other
\* payload field.
C16_OwnField ==
    nwPc = "done" =>
        /\ \A c \in NormalizeCalls :
               /\ c.ret.ok
               /\ \A w \in Wiring :
                      c.ret.wd[w.out] = ExpectedValue(w.family, c.p[w.in])
        /\ \A w \in Wiring :
               w.in # nwField => nwRet.wd[w.out] = nwAlt.wd[w.out]

-----------------------------------------------------------------------------
(* Claims about the fields NewWeatherData does not convert *)

\* the payload fields carried as they are, each with its WeatherData field
CarriedFields ==
    { <<"Passkey", "Passkey">>, <<"Freq", "Frequency">>, <<"Model", "Model">>,
      <<"StationType", "StationType">>, <<"Heap", "Heap">>,
      <<"Runtime", "Runtime">>, <<"Humidity", "OutdoorHumidity">>,
      <<"HumidityIn", "IndoorHumidity">>,
      <<"SolarRadiation", "SolarRadiation">>, <<"UV", "UV">>,
      <<"Wh65Batt", "BatteryLevel">>, <<"WindDir", "WindDirection">> }

\* the position of a column in the INSERT
ColumnOf(name) == CHOOSE k \in DOMAIN ColumnNames : ColumnNames[k] = name

\* C17: the fields NewWeatherData does not convert equal the payload's (the
\* wind direction being the corrected one), Interval is the payload's
\* seconds as a duration, and the value bound to the interval column is
\* that number of seconds.
C17_CarriedUnchanged ==
    \A r \in Requests :
        hData[r] # NilData =>
            /\ \A f \in CarriedFields : hData[r][f[2]] = hPayload[r][f[1]]
            /\ hData[r].Interval = [sec |-> hPayload[r].Interval, nsec |-> 0]
            /\ \A i \in Stored(r) :
                   sink[i].stmt.args[ColumnOf("interval")] =
                       Num(hPayload[r].Interval, 0)

C17_Witness ==
    \E r \in Requests :
        /\ hReq[r].form = FormSample /\ Stored(r) # {}
        /\ hData[r].Interval = [sec |-> 60, nsec |-> 0]
        /\ hData[r].OutdoorHumidity = 47 /\ hData[r].Runtime = 1240
        /\ \A i \in Stored(r) : sink[i].stmt.args[17] = Float(6, 1)

-----------------------------------------------------------------------------
(* Claims about the correction of the wind direction *)

\* the wind direction each accepted sample report carries
SentWindDir(rq) ==
    CASE rq.form = FormSample   -> 196
      [] rq.form = FormNorth    -> 0
      [] rq.form = FormUpper    -> 350
      [] rq.form = FormFullTurn -> 360

\* the direction to be stored for a report
WantedWindDir(rq) ==
    IF windOffset # 0 THEN offsetDegrees(SentWindDir(rq), windOffset)
    ELSE SentWindDir(rq)

\* the positions of the calls of `what` made for request r
CallsOf(r, what) == {i \in DOMAIN hCalls[r] : hCalls[r][i] = what}

OffsetAppliedOnce ==
    \A r \in Requests :
        /\ Cardinality(CallsOf(r, "offsetDegrees")) <= 1
        /\ \A i \in CallsOf(r, "offsetDegrees") :
               windOffset # 0 /\ i > 1 /\ hCalls[r][i - 1] = "Decode"
        /\ \A i \in CallsOf(r, "NewWeatherData") :
               /\ i > 1
               /\ hCalls[r][i - 1] =
                      (IF windOffset # 0 THEN "offsetDegrees" ELSE "Decode")
        /\ hData[r] # NilData =>
               /\ hPayload[r].WindDir = WantedWindDir(hReq[r])
               /\ hData[r].WindDirection = WantedWindDir(hReq[r])
        /\ \A i \in Stored(r) :
               sink[i].stmt.args[ColumnOf("wind_direction")] =
                   WantedWindDir(hReq[r])

\* C18: for every accepted report the offset given at start is applied
\* exactly once, after decoding and before NewWeatherData, which corrects
\* nothing further; the stored wind direction is offsetDegrees(decoded
\* WindDir, offset), or the decoded value when the offset is 0; and the
\* offset never changes.
C18_OffsetOnce ==
    []OffsetAppliedOnce /\ [][windOffset' = windOffset]_vars

C18_Witness ==
    \E r, q \in Requests :
        /\ windOffset = -90
        /\ hReq[r].form = FormSample /\ hReq[q].form = FormFullTurn
        /\ \E i \in Stored(r) : sink[i].stmt.args[27] = 106
        /\ \E i \in Stored(q) : sink[i].stmt.args[27] = 270

-----------------------------------------------------------------------------
(* Claims about the order in which Payload.ParseValues visits the keys *)

\* C19: the payload and the error returned by the decoder are the same in
\* whatever order the keys of the mapping are visited.
C19_OrderIndependent ==
    pvPc = "done" =>
        \A o \in Orders(DOMAIN pvIn) :
            ParseValues(ZeroStruct(PayloadFields), pvIn, o) =
                [msg |-> pvMsg, err |-> pvErr]

-----------------------------------------------------------------------------
(* Claims about the INSERT statement *)

\* what the argument reading field f of the observation wd is bound to
BoundValue(wd, f) ==
    IF f = "Interval" THEN DurationSeconds(wd.Interval) ELSE wd[f]

\* as many columns as placeholders as arguments, the placeholders $1..$n
CountsAgree(st) ==
    /\ Len(st.columns) = Len(st.values)
    /\ Len(st.values) = Len(st.args)
    /\ Len(st.args) = Len(BoundFields)
    /\ \A k \in DOMAIN st.values : st.values[k] = k

\* the k-th argument is the field named by the k-th entry of BoundFields
ArgumentsAreFields(st, wd) ==
    \A k \in DOMAIN st.args : st.args[k] = BoundValue(wd, BoundFields[k])

\* the k-th argument reads the field tagged with the k-th column
ColumnsDenoteArguments(st) ==
    \A k \in DOMAIN st.columns :
        /\ st.columns[k] \in DOMAIN DbTags
        /\ DbTags[st.columns[k]] = BoundFields[k]

\* no field is bound to two columns
FieldsBoundOnce ==
    \A k, l \in DOMAIN BoundFields :
        k # l => BoundFields[k] # BoundFields[l]

\* C20: in every INSERT the columns, placeholders and arguments are equally
\* many, the k-th argument is the observation field the k-th column
\* denotes, and every column is bound to a field of its own.
C20_PositionallyConsistent ==
    \A i \in DOMAIN sink :
        LET st == sink[i].stmt
            wd == hData[sink[i].req]
        IN  /\ CountsAgree(st)
            /\ ArgumentsAreFields(st, wd)
            /\ ColumnsDenoteArguments(st)
            /\ FieldsBoundOnce

====
